---- MODULE Spec2Model ----
(***************************************************************************)
(* disk-mpmc: a disk-backed multi-producer / multi-consumer queue.         *)
(*                                                                         *)
(*   src/src/datapage.rs   the data page (push, try_get, get_with_timeout, *)
(*                         get, increment_group_count)                     *)
(*   src/src/manager.rs    the page manager (new, set_max_datapages,       *)
(*                         get_last_datapage, get_or_create_datapage)      *)
(*   src/src/lib.rs        the receivers (Receiver<Grouped>,               *)
(*                         Receiver<Anonymous>), written over RefCell,     *)
(*                         with the page and the manager lib.rs defines    *)
(*                         for them (DataPage, DataPagesManager)           *)
(*   spec.md 4.D           the Sender, which src/ does not hold            *)
(*                                                                         *)
(* The page sizes and the integer width are scaled down: a page has        *)
(* MAX_MESSAGES_PER_PAGE = 3 slots of EXPECTED_MESSAGE_SIZE_BYTES = 6      *)
(* bytes, and a u32 is U32 = 2^7 values wide (the packed counter is two    *)
(* such fields, U64 = U32 * U32).  Every arithmetic step keeps the width   *)
(* the source gives it.                                                    *)
(***************************************************************************)
EXTENDS Integers, Sequences, FiniteSets, TLC

\* ------------------------------------------------------------ constants

MAX_MESSAGES_PER_PAGE == 3
EXPECTED_MESSAGE_SIZE_BYTES == 6
MAX_BYTES_PER_PAGE == MAX_MESSAGES_PER_PAGE * EXPECTED_MESSAGE_SIZE_BYTES
IDX_SALT == 1
SIZE_OF_LEN == 4
MAX_RECEIVER_GROUPS == 2
U32 == 128
U32_MAX == U32 - 1
U64 == U32 * U32

\* ------------------------------------------------------------ bounds

MaxPage == 3
MaxPushes == 4
MaxCalls == 2

\* A page is one mapping of one file. The file .dp.data.<n> is mapped under
\* the name n; when get_or_create_datapage removes that file and makes it
\* again in the same call (manager.rs 104-117 with max_dps = 0), the file made
\* is a new one, zero-filled, and its mapping has the name Remade(n), while a
\* mapping of the removed file that is still held keeps what was written to it.
\* Mapping a file that exists gives the page of that file.
Remade(n) == MaxPage + 1 + n

Slots == 0 .. (MAX_MESSAGES_PER_PAGE - 1)
Groups == 0 .. (MAX_RECEIVER_GROUPS - 1)
BufIdx == 0 .. (MAX_BYTES_PER_PAGE - 1)

\* threads that call the page directly (DataPage::push, DataPage::get ..)
Producers == {"p1", "p2"}
Consumers == {"c1", "c2"}
\* threads that own a handle of the queue
Senders == {"s1", "s2"}
GroupedRx == {"r1", "r2", "r3"}
AnonRx == {"a1"}
Receivers == GroupedRx \cup AnonRx
Threads == Producers \cup Consumers \cup Senders \cup Receivers

\* ------------------------------------------------------------ state

VARIABLES
    count_write_idx,       \* [Pages -> 0 .. U64-1]     DataPage.count_write_idx
    receiver_group_count,  \* [Pages -> [Groups -> u32]]
    idx_map_with_salt,     \* [Pages -> [Slots -> u32]]  the slot table / futex words
    buf,                   \* [Pages -> [BufIdx -> byte]]
    overflow_checks,       \* the build: TRUE = overflow checks on (debug profile)
    pc,                    \* [Threads -> position in the call]
    loc,                   \* [Threads -> the call's locals]
    ret,                   \* [Threads -> what the last call returned]
    ncalls,                \* [Threads -> calls started]
    resv,                  \* history: the reservations, in fetch_add order
    dir,                   \* the file names in the manager's directory
    datapage_ring,         \* DataPagesManager.datapage_ring (front first)
    datapage_count,        \* DataPagesManager.datapage_count
    max_datapages,         \* DataPagesManager.max_datapages
    mgr_ret,               \* what the last call on the manager returned
    mgr_hist,              \* history of the manager's use
    handle,                \* [Threads -> the Sender's / Receiver's fields]
    pushed,                \* history: the messages Sender.push returned Ok for
    popped                 \* history: [Receivers -> the messages pop returned]

pageVars == << count_write_idx, receiver_group_count, idx_map_with_salt, buf >>
threadVars == << pc, loc, ret, ncalls >>
mgrVars == << dir, datapage_ring, datapage_count, max_datapages, mgr_ret, mgr_hist >>
queueVars == << handle, pushed, popped >>

vars == << pageVars, overflow_checks, threadVars, resv, mgrVars, queueVars >>

\* ------------------------------------------------------------ bytes

\* a message of len bytes, every byte = fill
Data(len, fill) == [i \in 1 .. len |-> fill]

\* the largest message whose full length wraps the write_idx field after one
\* small message: len + SIZE_OF_LEN + 5 = U32
BigLen == U32 - SIZE_OF_LEN - 5

\* the shortest message whose len as u32 + SIZE_OF_LEN as u32 leaves u32
OverflowLen == U32 - SIZE_OF_LEN

PushInputs == { Data(1, 1), Data(7, 3), Data(BigLen, 9) }

RECURSIVE Pow256(_)
Pow256(i) == IF i = 0 THEN 1 ELSE 256 * Pow256(i - 1)

\* (len as LenType).to_le_bytes()
to_le_bytes(len) == [i \in 1 .. SIZE_OF_LEN |-> (len \div Pow256(i - 1)) % 256]

RECURSIVE SumLe(_, _)
SumLe(bytes, i) ==
    IF i > Len(bytes) THEN 0 ELSE bytes[i] * Pow256(i - 1) + SumLe(bytes, i + 1)

\* LenType::from_le_bytes(..)
from_le_bytes(bytes) == SumLe(bytes, 1)

\* buf[from .. from + n) as a sequence
Slice(b, from, n) == [i \in 1 .. n |-> b[from + i - 1]]

\* buf[from .. from + Len(bytes)).copy_from_slice(bytes)
CopyFromSlice(b, from, bytes) ==
    [i \in DOMAIN b |-> IF i >= from /\ i < from + Len(bytes)
                      THEN bytes[i - from + 1] ELSE b[i]]

\* ------------------------------------------------------------ integers

\* a + b on u32: the sum and whether it left the type
u32_add(a, b) == [value |-> (a + b) % U32, overflow |-> a + b >= U32]

saturating_add(a, b) == IF a + b > U32_MAX THEN U32_MAX ELSE a + b

saturating_sub(a, b) == IF a < b THEN 0 ELSE a - b

\* CountWriteIdx::fetch_add: one atomic add of (val << 32) + 1 on the packed
\* word; returns the prior word decoded
\* w & WRITE_IDX_MASK, w & COUNT_MASK, w >> 32, w as u32
and_write_idx_mask(w) == w - (w % U32)
and_count_mask(w) == w % U32
shr32(w) == w \div U32
as_u32(w) == w % U32

fetch_add(word, val) ==
    [ new       |-> (word + (val * U32) + 1) % U64,
      write_idx |-> as_u32(shr32(and_write_idx_mask(word))),
      count     |-> as_u32(and_count_mask(word)) ]

\* ------------------------------------------------------------ threads

\* a call's locals; r is the call's record in resv, and pub (history) says
\* that a push stored a salted offset in the cell while this reader waited
NoLoc == [ page |-> 0, data |-> << >>, write_idx |-> 0, count |-> 0,
           v |-> 0, op |-> "-", r |-> 0, pub |-> FALSE ]

NoRet == [ kind |-> "-", op |-> "-", data |-> << >>, page |-> 0, slot |-> 0,
           pub |-> FALSE ]

\* a reader between its call and its last load of the cell
Waiting(t) == pc[t] \in {"wait", "sleeping", "reload", "load"}

\* futex wake(i32::MAX) on cell (pg, slot): every thread asleep there resumes
Woken(pg, slot) ==
    [ t \in Threads |->
        IF pc[t] = "sleeping" /\ loc[t].page = pg /\ loc[t].count = slot
        THEN "reload" ELSE pc[t] ]

\* where a thread continues when DataPage::push returns: the direct callers
\* are done, Sender.push returns on Ok and asks for the next page on
\* DataPageFull
AfterPush(t, kind) ==
    IF kind = "panic" THEN "panicked"
    ELSE IF t \in Senders /\ kind = "DataPageFull" THEN "rotate"
    ELSE "idle"

\* where a thread continues when DataPage::get returns: Receiver.pop returns
\* the message, and asks for the next page on EndOfDataPage
AfterGet(t, kind) ==
    IF kind = "panic" THEN "panicked"
    ELSE IF t \in Receivers /\ kind = "EndOfDataPage" THEN "rotate"
    ELSE "idle"

\* thread t moves to label with locals l, inside its call
Goto(t, label, l) ==
    /\ pc' = [pc EXCEPT ![t] = label]
    /\ loc' = [loc EXCEPT ![t] = l]
    /\ UNCHANGED ret

\* the page call of thread t returns kind (with data, for slot c of page pg)
\* and the thread continues at after; base is pc, or pc after a futex wake
Finish(t, base, after, kind, data, pg, c) ==
    /\ pc' = [base EXCEPT ![t] = after]
    /\ loc' = [loc EXCEPT ![t] = IF after = "rotate" THEN @ ELSE NoLoc]
    /\ ret' = [ret EXCEPT ![t] = [ kind |-> kind, op |-> loc[t].op, data |-> data,
                                    page |-> pg, slot |-> c, pub |-> loc[t].pub ]]

\* the outcome of a reservation is written on its history record
Settle(t, kind) ==
    [resv EXCEPT ![loc[t].r].res = kind]

\* ------------------------------------------------------------ DataPage::push

\* the byte test alone, whatever the count of the reservation
ByteBranch(write_idx, count, full_msg_len) ==
    LET sum == u32_add(write_idx, full_msg_len) IN
    IF sum.overflow /\ overflow_checks THEN "panic"
    ELSE IF sum.value >= MAX_BYTES_PER_PAGE THEN "term_store"
    ELSE "copy"

\* datapage.rs 82-101: what the reservation (write_idx, count) of a message of
\* full length full_msg_len leads to
PushBranch(write_idx, count, full_msg_len) ==
    LET sum == u32_add(write_idx, full_msg_len) IN
    IF count >= MAX_MESSAGES_PER_PAGE THEN "full"
    ELSE IF sum.overflow /\ overflow_checks THEN "panic"
    ELSE IF sum.value >= MAX_BYTES_PER_PAGE THEN "term_store"
    ELSE "copy"

\* datapage.rs 76-101: the fetch_add and the two fullness tests, on page pg.
\* The argument of the fetch_add is the u32 sum len as u32 + SIZE_OF_LEN as u32
\* (line 78), which panics before the fetch_add when it overflows and
\* overflow checks are on; full_msg_len is (len + SIZE_OF_LEN) as u32 (line 80)
push_reserve(t, pg, data) ==
    LET val == u32_add(as_u32(Len(data)), SIZE_OF_LEN)
        full_msg_len == as_u32(Len(data) + SIZE_OF_LEN)
        r == fetch_add(count_write_idx[pg], val.value)
        br == PushBranch(r.write_idx, r.count, full_msg_len)
        kind == CASE br = "full" -> "DataPageFull"
                  [] br = "panic" -> "panic"
                  [] OTHER -> "pending"
        l == [ NoLoc EXCEPT !.page = pg, !.data = data, !.write_idx = r.write_idx,
                            !.count = r.count, !.op = "push", !.r = Len(resv) + 1 ]
    IN  IF val.overflow /\ overflow_checks
        THEN /\ pc' = [pc EXCEPT ![t] = AfterPush(t, "panic")]
             /\ loc' = [loc EXCEPT ![t] = NoLoc]
             /\ ret' = [ret EXCEPT ![t] = [ NoRet EXCEPT !.kind = "panic",
                                                         !.op = "push", !.page = pg ]]
             /\ UNCHANGED << pageVars, resv >>
        ELSE
        /\ count_write_idx' = [count_write_idx EXCEPT ![pg] = r.new]
        /\ resv' = Append(resv, [ page |-> pg, write_idx |-> r.write_idx,
                                  count |-> r.count, len |-> full_msg_len,
                                  data |-> data, res |-> kind ])
        /\ IF kind = "pending"
           THEN Goto(t, br, l)
           ELSE /\ pc' = [pc EXCEPT ![t] = AfterPush(t, kind)]
                /\ loc' = [loc EXCEPT ![t] = IF AfterPush(t, kind) = "rotate"
                                             THEN l ELSE NoLoc]
                /\ ret' = [ret EXCEPT ![t] = [ NoRet EXCEPT !.kind = kind,
                              !.op = "push", !.page = pg, !.slot = r.count ]]
        /\ UNCHANGED << receiver_group_count, idx_map_with_salt, buf >>

\* datapage.rs 64-69: DataPage::increment_group_count, one wrapping fetch_add
\* on the counter of group; it returns the prior value, and an index past the
\* array panics
increment_group_count(t, pg, group, val) ==
    /\ pc[t] = "idle"
    /\ ncalls[t] < MaxCalls
    /\ ncalls' = [ncalls EXCEPT ![t] = @ + 1]
    /\ loc' = [loc EXCEPT ![t] = NoLoc]
    /\ IF group \notin Groups
       THEN /\ pc' = [pc EXCEPT ![t] = "panicked"]
            /\ ret' = [ret EXCEPT ![t] = [ NoRet EXCEPT !.kind = "panic",
                          !.op = "increment_group_count", !.page = pg ]]
            /\ UNCHANGED receiver_group_count
       ELSE /\ receiver_group_count' =
                  [receiver_group_count EXCEPT ![pg][group] = u32_add(@, val).value]
            /\ pc' = [pc EXCEPT ![t] = "idle"]
            /\ ret' = [ret EXCEPT ![t] = [ NoRet EXCEPT !.kind = "count",
                          !.op = "increment_group_count", !.page = pg,
                          !.slot = receiver_group_count[pg][group] ]]
    /\ UNCHANGED << count_write_idx, idx_map_with_salt, buf, overflow_checks, resv,
                    mgrVars, queueVars >>

\* datapage.rs 94-96: the terminator is stored in the reserved slot
push_term_store(t) ==
    /\ pc[t] = "term_store"
    /\ idx_map_with_salt' =
          [idx_map_with_salt EXCEPT ![loc[t].page][loc[t].count] = U32_MAX]
    /\ Goto(t, "term_wake", loc[t])
    /\ UNCHANGED << count_write_idx, receiver_group_count, buf, overflow_checks,
                    ncalls, resv, mgrVars, queueVars >>

\* datapage.rs 98-100: wake every waiter of the slot, return DataPageFull
push_term_wake(t) ==
    /\ pc[t] = "term_wake"
    /\ Finish(t, Woken(loc[t].page, loc[t].count), AfterPush(t, "DataPageFull"),
              "DataPageFull", << >>, loc[t].page, loc[t].count)
    /\ resv' = Settle(t, "DataPageFull")
    /\ UNCHANGED << pageVars, overflow_checks, ncalls, mgrVars, queueVars >>

\* datapage.rs 103-104: the length prefix is copied to
\* buf[write_idx .. write_idx + SIZE_OF_LEN]; a range that leaves buf panics
PushCopyLen(b, write_idx, data) ==
    IF write_idx + SIZE_OF_LEN > MAX_BYTES_PER_PAGE THEN [ok |-> FALSE, buf |-> b]
    ELSE [ ok |-> TRUE,
           buf |-> CopyFromSlice(b, write_idx, to_le_bytes(as_u32(Len(data)))) ]

\* datapage.rs 106-108: the payload is copied behind the prefix
PushCopyData(b, write_idx, data) ==
    LET from == write_idx + SIZE_OF_LEN IN
    IF from + Len(data) > MAX_BYTES_PER_PAGE THEN [ok |-> FALSE, buf |-> b]
    ELSE [ok |-> TRUE, buf |-> CopyFromSlice(b, from, data)]

\* the two copies are two plain writes to buf, each a step of its own: a
\* reader of a slot published at the same offset can run between them
push_copy(t) ==
    /\ pc[t] = "copy"
    /\ LET pg == loc[t].page
           w == PushCopyLen(buf[pg], loc[t].write_idx, loc[t].data)
       IN /\ buf' = [buf EXCEPT ![pg] = w.buf]
          /\ IF w.ok
             THEN Goto(t, "copy_data", loc[t]) /\ UNCHANGED resv
             ELSE /\ Finish(t, pc, AfterPush(t, "panic"), "panic", << >>, pg, loc[t].count)
                  /\ resv' = Settle(t, "panic")
    /\ UNCHANGED << count_write_idx, receiver_group_count, idx_map_with_salt,
                    overflow_checks, ncalls, mgrVars, queueVars >>

push_copy_data(t) ==
    /\ pc[t] = "copy_data"
    /\ LET pg == loc[t].page
           w == PushCopyData(buf[pg], loc[t].write_idx, loc[t].data)
       IN /\ buf' = [buf EXCEPT ![pg] = w.buf]
          /\ IF w.ok
             THEN Goto(t, "store", loc[t]) /\ UNCHANGED resv
             ELSE /\ Finish(t, pc, AfterPush(t, "panic"), "panic", << >>, pg, loc[t].count)
                  /\ resv' = Settle(t, "panic")
    /\ UNCHANGED << count_write_idx, receiver_group_count, idx_map_with_salt,
                    overflow_checks, ncalls, mgrVars, queueVars >>

\* an offset stored as it is
Unsalted(write_idx) == write_idx

\* datapage.rs 112: write_idx as IdxType + IDX_SALT
Salted(write_idx) == u32_add(write_idx, IDX_SALT).value

\* datapage.rs 110-112: the salted offset is stored in the reserved slot
push_store(t) ==
    /\ pc[t] = "store"
    /\ idx_map_with_salt' =
          [idx_map_with_salt EXCEPT ![loc[t].page][loc[t].count] =
              Salted(loc[t].write_idx)]
    /\ pc' = [pc EXCEPT ![t] = "wake"]
    /\ loc' = [u \in Threads |->
                 IF Waiting(u) /\ loc[u].page = loc[t].page /\ loc[u].count = loc[t].count
                 THEN [loc[u] EXCEPT !.pub = TRUE] ELSE loc[u]]
    /\ UNCHANGED << count_write_idx, receiver_group_count, buf, overflow_checks,
                    ret, ncalls, resv, mgrVars, queueVars >>

\* datapage.rs 114-116: wake every waiter of the slot, return Ok
push_wake(t) ==
    /\ pc[t] = "wake"
    /\ Finish(t, Woken(loc[t].page, loc[t].count), AfterPush(t, "Ok"),
              "Ok", loc[t].data, loc[t].page, loc[t].count)
    /\ resv' = Settle(t, "Ok")
    /\ pushed' = IF t \in Senders
                 THEN Append(pushed, [ page |-> loc[t].page, slot |-> loc[t].count,
                                       data |-> loc[t].data ])
                 ELSE pushed
    /\ UNCHANGED << pageVars, overflow_checks, ncalls, mgrVars, handle, popped >>

\* a producer thread calls DataPage::push(data) on the page
PushCall(t, data) ==
    /\ pc[t] = "idle"
    /\ Len(resv) < MaxPushes
    /\ push_reserve(t, 0, data)
    /\ UNCHANGED << overflow_checks, ncalls, mgrVars, queueVars >>

\* ------------------------------------------------------------ the readers

\* datapage.rs 132 / 191 / 243: what a non-zero cell value leads to
AfterLoad(v) == IF v >= MAX_BYTES_PER_PAGE THEN "casc_store" ELSE "read"

\* datapage.rs 119-130 (try_get), 163-179 (get_with_timeout), 217-231 (get):
\* the entry guard and the first load of the cell
read_enter(t, op, pg, c) ==
    LET l == [ NoLoc EXCEPT !.page = pg, !.count = c, !.op = op ]
        out(kind, after) ==
            /\ pc' = [pc EXCEPT ![t] = after]
            /\ loc' = [loc EXCEPT ![t] = IF after = "rotate" THEN l ELSE NoLoc]
            /\ ret' = [ret EXCEPT ![t] = [ NoRet EXCEPT !.kind = kind, !.op = op,
                                                        !.page = pg, !.slot = c ]]
    IN
    IF c >= MAX_MESSAGES_PER_PAGE
    THEN out("EndOfDataPage", AfterGet(t, "EndOfDataPage"))
    ELSE LET v == idx_map_with_salt[pg][c] IN
         IF v = 0
         THEN IF op = "try_get"
              THEN out("None", "idle")
              ELSE Goto(t, "wait", l)
         ELSE Goto(t, AfterLoad(v), [l EXCEPT !.v = v])

\* datapage.rs 181 (wait_for(0, timeout)), 233 (wait(0)): the futex compares
\* the cell with 0 and sleeps only if it is still 0
read_wait(t) ==
    /\ pc[t] = "wait"
    /\ Goto(t, IF idx_map_with_salt[loc[t].page][loc[t].count] = 0
               THEN "sleeping" ELSE "reload", loc[t])
    /\ UNCHANGED << pageVars, overflow_checks, ncalls, resv, mgrVars, queueVars >>

\* the futex wait returns without a wake: the timeout of wait_for, or an
\* interrupted wait
read_wait_returns(t) ==
    /\ pc[t] = "sleeping"
    /\ Goto(t, "reload", loc[t])
    /\ UNCHANGED << pageVars, overflow_checks, ncalls, resv, mgrVars, queueVars >>

\* datapage.rs 182-188 (get_with_timeout), 234-240 (get): the load after the
\* wait; on 0 get loops and get_with_timeout returns None
read_reload(t) ==
    /\ pc[t] = "reload"
    /\ LET pg == loc[t].page
           c == loc[t].count
           v == idx_map_with_salt[pg][c]
       IN IF v = 0
          THEN IF loc[t].op = "get"
               THEN Goto(t, "load", loc[t])
               ELSE Finish(t, pc, "idle", "None", << >>, pg, c)
          ELSE Goto(t, AfterLoad(v), [loc[t] EXCEPT !.v = v])
    /\ UNCHANGED << pageVars, overflow_checks, ncalls, resv, mgrVars, queueVars >>

\* datapage.rs 225-231: the load at the top of get's loop
read_load(t) ==
    /\ pc[t] = "load"
    /\ LET v == idx_map_with_salt[loc[t].page][loc[t].count]
       IN IF v = 0 THEN Goto(t, "wait", loc[t])
          ELSE Goto(t, AfterLoad(v), [loc[t] EXCEPT !.v = v])
    /\ UNCHANGED << pageVars, overflow_checks, ncalls, resv, mgrVars, queueVars >>

\* datapage.rs 133-137 / 192-196 / 244-248: a reader that saw the terminator
\* stores it in the next cell; indexing the slot table past its end panics
read_casc_store(t) ==
    /\ pc[t] = "casc_store"
    /\ LET pg == loc[t].page
           next_count == saturating_add(loc[t].count, 1)
       IN IF next_count >= MAX_MESSAGES_PER_PAGE
          THEN /\ Finish(t, pc, AfterGet(t, "panic"), "panic", << >>, pg, loc[t].count)
               /\ UNCHANGED idx_map_with_salt
          ELSE /\ idx_map_with_salt' =
                     [idx_map_with_salt EXCEPT ![pg][next_count] = U32_MAX]
               /\ Goto(t, "casc_wake", loc[t])
    /\ UNCHANGED << count_write_idx, receiver_group_count, buf, overflow_checks,
                    ncalls, resv, mgrVars, queueVars >>

\* datapage.rs 139-141 / 198-199 / 250-251: wake the next cell's waiters and
\* return EndOfDataPage
read_casc_wake(t) ==
    /\ pc[t] = "casc_wake"
    /\ Finish(t, Woken(loc[t].page, saturating_add(loc[t].count, 1)),
              AfterGet(t, "EndOfDataPage"), "EndOfDataPage", << >>,
              loc[t].page, loc[t].count)
    /\ UNCHANGED << pageVars, overflow_checks, ncalls, resv, mgrVars, queueVars >>

\* datapage.rs 144-155 / 202-213 / 254-263: the slice the cell value names;
\* len is read from the buffer, and a range that leaves buf panics
ReadSlice(b, v) ==
    LET idx == saturating_sub(v, IDX_SALT) IN
    IF idx + SIZE_OF_LEN > MAX_BYTES_PER_PAGE THEN [ok |-> FALSE, data |-> << >>]
    ELSE LET len == from_le_bytes(Slice(b, idx, SIZE_OF_LEN)) IN
         IF idx + SIZE_OF_LEN + len > MAX_BYTES_PER_PAGE
         THEN [ok |-> FALSE, data |-> << >>]
         ELSE [ok |-> TRUE, data |-> Slice(b, idx + SIZE_OF_LEN, len)]

read_slice(t) ==
    /\ pc[t] = "read"
    /\ LET pg == loc[t].page
           s == ReadSlice(buf[pg], loc[t].v)
           kind == IF s.ok THEN "Some" ELSE "panic"
       IN /\ Finish(t, pc, AfterGet(t, kind), kind, s.data, pg, loc[t].count)
          /\ popped' = IF t \in Receivers /\ s.ok
                        THEN [popped EXCEPT ![t] =
                                Append(@, [ page |-> pg, slot |-> loc[t].count,
                                            data |-> s.data ])]
                        ELSE popped
    /\ UNCHANGED << pageVars, overflow_checks, ncalls, resv, mgrVars, handle, pushed >>

ReadOps == {"try_get", "get_with_timeout", "get"}

\* a consumer thread calls try_get(c), get_with_timeout(c, _) or get(c)
ReadCall(t, op, c) ==
    /\ pc[t] = "idle"
    /\ ncalls[t] < MaxCalls
    /\ read_enter(t, op, 0, c)
    /\ ncalls' = [ncalls EXCEPT ![t] = @ + 1]
    /\ UNCHANGED << pageVars, overflow_checks, resv, mgrVars, queueVars >>

\* ------------------------------------------------------------ the page of lib.rs

\* lib.rs defines its own DataPage, the page a Receiver holds.
\* lib.rs 19-21, scaled: MAX_MESSAGES_PER_PAGE is 2^16 - 1 in both files and is
\* taken as 2^3 - 1 here, so that the full length of a small message is a slot
\* index, as it is at 65535; EXPECTED_MESSAGE_SIZE_BYTES is twice that of
\* datapage.rs
LIB_MAX_MESSAGES_PER_PAGE == 7
LIB_EXPECTED_MESSAGE_SIZE_BYTES == 12
LIB_MAX_BYTES_PER_PAGE == LIB_MAX_MESSAGES_PER_PAGE * LIB_EXPECTED_MESSAGE_SIZE_BYTES

LibSlots == 0 .. (LIB_MAX_MESSAGES_PER_PAGE - 1)
LibBufIdx == 0 .. (LIB_MAX_BYTES_PER_PAGE - 1)

\* lib.rs 31-43: CountWriteIdx::fetch_add; both fields are taken from
\* word & WRITE_IDX_MASK, and the pair is returned as (write_idx, count)
lib_fetch_add(word, val) ==
    LET write_idx == as_u32(shr32(and_write_idx_mask(word)))
        count == as_u32(and_write_idx_mask(word))
    IN  [ new |-> (word + (val * U32) + 1) % U64, pair |-> << write_idx, count >> ]

\* lib.rs 223-236: the two fullness tests
LibPushBranch(write_idx, count, full_msg_len) ==
    LET sum == u32_add(write_idx, full_msg_len) IN
    IF count >= LIB_MAX_MESSAGES_PER_PAGE THEN "full"
    ELSE IF sum.overflow /\ overflow_checks THEN "panic"
    ELSE IF sum.value >= LIB_MAX_BYTES_PER_PAGE THEN "lib_term"
    ELSE "lib_copy"

\* lib.rs 216-236: `let (count, write_idx) = fetch_add(..)` and the tests, on
\* page pg; the argument len as u32 + SIZE_OF_LEN as u32 (line 219) panics
\* before the fetch_add when it overflows and overflow checks are on
lib_push_reserve(t, pg, data) ==
    LET val == u32_add(as_u32(Len(data)), SIZE_OF_LEN)
        full_msg_len == as_u32(Len(data) + SIZE_OF_LEN)
        r == lib_fetch_add(count_write_idx[pg], val.value)
        count == r.pair[1]
        write_idx == r.pair[2]
        br == LibPushBranch(write_idx, count, full_msg_len)
        kind == CASE br = "full" -> "DataPageFull"
                  [] br = "panic" -> "panic"
                  [] OTHER -> "pending"
        l == [ NoLoc EXCEPT !.page = pg, !.data = data, !.write_idx = write_idx,
                            !.count = count, !.op = "push", !.r = Len(resv) + 1 ]
    IN  IF val.overflow /\ overflow_checks
        THEN /\ pc' = [pc EXCEPT ![t] = AfterPush(t, "panic")]
             /\ loc' = [loc EXCEPT ![t] = NoLoc]
             /\ ret' = [ret EXCEPT ![t] = [ NoRet EXCEPT !.kind = "panic",
                                                         !.op = "push", !.page = pg ]]
             /\ UNCHANGED << pageVars, resv >>
        ELSE
        /\ count_write_idx' = [count_write_idx EXCEPT ![pg] = r.new]
        /\ resv' = Append(resv, [ page |-> pg, write_idx |-> write_idx,
                                  count |-> count, len |-> full_msg_len,
                                  data |-> data, res |-> kind ])
        /\ IF kind = "pending"
           THEN Goto(t, br, l)
           ELSE /\ pc' = [pc EXCEPT ![t] = AfterPush(t, kind)]
                /\ loc' = [loc EXCEPT ![t] = IF AfterPush(t, kind) = "rotate"
                                             THEN l ELSE NoLoc]
                /\ ret' = [ret EXCEPT ![t] = [ NoRet EXCEPT !.kind = kind,
                              !.op = "push", !.page = pg, !.slot = count ]]
        /\ UNCHANGED << receiver_group_count, idx_map_with_salt, buf >>

\* lib.rs 232-235: the terminator is stored in slot count, its waiters woken
lib_push_term(t) ==
    /\ pc[t] = "lib_term"
    /\ idx_map_with_salt' =
          [idx_map_with_salt EXCEPT ![loc[t].page][loc[t].count] = U32_MAX]
    /\ Finish(t, pc, AfterPush(t, "DataPageFull"), "DataPageFull", << >>,
              loc[t].page, loc[t].count)
    /\ resv' = Settle(t, "DataPageFull")
    /\ UNCHANGED << count_write_idx, receiver_group_count, buf, overflow_checks,
                    ncalls, mgrVars, queueVars >>

\* lib.rs 238-239: the length prefix is copied into buf, which has
\* LIB_MAX_BYTES_PER_PAGE bytes
LibPushCopyLen(b, write_idx, data) ==
    IF write_idx + SIZE_OF_LEN > LIB_MAX_BYTES_PER_PAGE THEN [ok |-> FALSE, buf |-> b]
    ELSE [ ok |-> TRUE,
           buf |-> CopyFromSlice(b, write_idx, to_le_bytes(as_u32(Len(data)))) ]

\* lib.rs 241-243: the payload is copied behind the prefix
LibPushCopyData(b, write_idx, data) ==
    LET from == write_idx + SIZE_OF_LEN IN
    IF from + Len(data) > LIB_MAX_BYTES_PER_PAGE THEN [ok |-> FALSE, buf |-> b]
    ELSE [ok |-> TRUE, buf |-> CopyFromSlice(b, from, data)]

\* the two copies are two plain writes to buf, each a step of its own
lib_push_copy(t) ==
    /\ pc[t] = "lib_copy"
    /\ LET pg == loc[t].page
           w == LibPushCopyLen(buf[pg], loc[t].write_idx, loc[t].data)
       IN /\ buf' = [buf EXCEPT ![pg] = w.buf]
          /\ IF w.ok
             THEN Goto(t, "lib_copy_data", loc[t]) /\ UNCHANGED resv
             ELSE /\ Finish(t, pc, AfterPush(t, "panic"), "panic", << >>, pg, loc[t].count)
                  /\ resv' = Settle(t, "panic")
    /\ UNCHANGED << count_write_idx, receiver_group_count, idx_map_with_salt,
                    overflow_checks, ncalls, mgrVars, queueVars >>

lib_push_copy_data(t) ==
    /\ pc[t] = "lib_copy_data"
    /\ LET pg == loc[t].page
           w == LibPushCopyData(buf[pg], loc[t].write_idx, loc[t].data)
       IN /\ buf' = [buf EXCEPT ![pg] = w.buf]
          /\ IF w.ok
             THEN Goto(t, "lib_store", loc[t]) /\ UNCHANGED resv
             ELSE /\ Finish(t, pc, AfterPush(t, "panic"), "panic", << >>, pg, loc[t].count)
                  /\ resv' = Settle(t, "panic")
    /\ UNCHANGED << count_write_idx, receiver_group_count, idx_map_with_salt,
                    overflow_checks, ncalls, mgrVars, queueVars >>

\* lib.rs 245-249: write_idx + IDX_SALT is stored in slot count, its waiters
\* woken, Ok returned
lib_push_store(t) ==
    /\ pc[t] = "lib_store"
    /\ idx_map_with_salt' =
          [idx_map_with_salt EXCEPT ![loc[t].page][loc[t].count] =
              Salted(loc[t].write_idx)]
    /\ Finish(t, pc, AfterPush(t, "Ok"), "Ok", loc[t].data, loc[t].page, loc[t].count)
    /\ resv' = Settle(t, "Ok")
    /\ pushed' = IF t \in Senders
                 THEN Append(pushed, [ page |-> loc[t].page, slot |-> loc[t].count,
                                       data |-> loc[t].data ])
                 ELSE pushed
    /\ UNCHANGED << count_write_idx, receiver_group_count, buf, overflow_checks,
                    ncalls, mgrVars, handle, popped >>

LibPushStep(t) ==
    \/ lib_push_term(t)
    \/ lib_push_copy(t)
    \/ lib_push_copy_data(t)
    \/ lib_push_store(t)

\* lib.rs 255-258: the entry guard of get(count) on page pg
lib_get_enter(t, pg, c) ==
    LET l == [ NoLoc EXCEPT !.page = pg, !.count = c, !.op = "get" ]
        after == AfterGet(t, "EndOfDataPage")
    IN
    IF c >= LIB_MAX_MESSAGES_PER_PAGE
    THEN /\ pc' = [pc EXCEPT ![t] = after]
         /\ loc' = [loc EXCEPT ![t] = IF after = "rotate" THEN l ELSE NoLoc]
         /\ ret' = [ret EXCEPT ![t] = [ NoRet EXCEPT !.kind = "EndOfDataPage",
                                        !.op = "get", !.page = pg, !.slot = c ]]
    ELSE Goto(t, "lib_wait", l)

\* a consumer thread calls get(c) on page 0
lib_get(t, c) ==
    /\ pc[t] = "idle"
    /\ ncalls[t] < MaxCalls
    /\ ncalls' = [ncalls EXCEPT ![t] = @ + 1]
    /\ lib_get_enter(t, 0, c)
    /\ UNCHANGED << pageVars, overflow_checks, resv, mgrVars, queueVars >>

\* lib.rs 260-266: the loop of wait(cell, 0) and load ends with the first
\* non-zero load; while the cell is 0 the caller stays in the loop
lib_get_load(t) ==
    /\ pc[t] = "lib_wait"
    /\ idx_map_with_salt[loc[t].page][loc[t].count] # 0
    /\ LET v == idx_map_with_salt[loc[t].page][loc[t].count] IN
       Goto(t, IF v >= LIB_MAX_BYTES_PER_PAGE THEN "lib_casc" ELSE "lib_read",
            [loc[t] EXCEPT !.v = v])
    /\ UNCHANGED << pageVars, overflow_checks, ncalls, resv, mgrVars, queueVars >>

\* lib.rs 268-274: the terminator is stored in the next slot; the index
\* count + 1 leaves the table at count = N - 1
lib_get_casc(t) ==
    /\ pc[t] = "lib_casc"
    /\ LET pg == loc[t].page
           next_count == saturating_add(loc[t].count, 1)
       IN
       IF next_count \in LibSlots
       THEN /\ idx_map_with_salt' =
                  [idx_map_with_salt EXCEPT ![pg][next_count] = U32_MAX]
            /\ Finish(t, pc, AfterGet(t, "EndOfDataPage"), "EndOfDataPage", << >>,
                      pg, loc[t].count)
       ELSE /\ idx_map_with_salt' = idx_map_with_salt
            /\ Finish(t, pc, "panicked", "panic", << >>, pg, loc[t].count)
    /\ UNCHANGED << count_write_idx, receiver_group_count, buf, overflow_checks,
                    ncalls, resv, mgrVars, queueVars >>

\* lib.rs 276-285: the slice the cell value names
LibReadSlice(b, v) ==
    LET idx == saturating_sub(v, IDX_SALT) IN
    IF idx + SIZE_OF_LEN > LIB_MAX_BYTES_PER_PAGE THEN [ok |-> FALSE, data |-> << >>]
    ELSE LET len == from_le_bytes(Slice(b, idx, SIZE_OF_LEN)) IN
         IF idx + SIZE_OF_LEN + len > LIB_MAX_BYTES_PER_PAGE
         THEN [ok |-> FALSE, data |-> << >>]
         ELSE [ok |-> TRUE, data |-> Slice(b, idx + SIZE_OF_LEN, len)]

lib_get_read(t) ==
    /\ pc[t] = "lib_read"
    /\ LET pg == loc[t].page
           s == LibReadSlice(buf[pg], loc[t].v)
           kind == IF s.ok THEN "Some" ELSE "panic"
       IN /\ Finish(t, pc, AfterGet(t, kind), kind, s.data, pg, loc[t].count)
          /\ popped' = IF t \in Receivers /\ s.ok
                        THEN [popped EXCEPT ![t] =
                                Append(@, [ page |-> pg, slot |-> loc[t].count,
                                            data |-> s.data ])]
                        ELSE popped
    /\ UNCHANGED << pageVars, overflow_checks, ncalls, resv, mgrVars, handle, pushed >>

LibGetStep(t) ==
    \/ lib_get_load(t)
    \/ lib_get_casc(t)
    \/ lib_get_read(t)

\* ------------------------------------------------------------ file names

\* A file name is the sequence of its parts between the dots, and a part is
\* the sequence of its characters: ".dp.data.maxi" has the four parts "",
\* "dp", "data" and "maxi".
DATAPAGE_FILE_STEM ==
    << << >>, << "d", "p" >>, << "d", "a", "t", "a" >>, << "m", "a", "x", "i" >> >>

None == -1

USIZE_MAX == U64 - 1

\* std::path: a name has an extension when it has a dot that is not its
\* leading one
HasExtension(name) == Len(name) >= 2 /\ ~ (Len(name) = 2 /\ name[1] = << >>)

extension(name) == IF HasExtension(name) THEN name[Len(name)] ELSE << >>

file_stem(name) ==
    IF HasExtension(name) THEN SubSeq(name, 1, Len(name) - 1) ELSE name

\* Path::with_extension: the extension is replaced when there is one
with_extension(name, ext) == file_stem(name) \o << ext >>

DigitChars == << "0", "1", "2", "3", "4", "5", "6", "7", "8", "9" >>

\* usize::to_string: the decimal digits, no sign, no leading zero
RECURSIVE to_string(_)
to_string(i) ==
    IF i < 10 THEN << DigitChars[i + 1] >>
    ELSE to_string(i \div 10) \o << DigitChars[(i % 10) + 1] >>

\* char::to_digit(10)
to_digit(ch) ==
    IF \E d \in 0 .. 9 : DigitChars[d + 1] = ch
    THEN CHOOSE d \in 0 .. 9 : DigitChars[d + 1] = ch
    ELSE None

\* the digits of str read from the left onto acc; None on a character that is
\* no digit and on a value above usize::MAX
RECURSIVE ParseDigits(_, _)
ParseDigits(str, acc) ==
    IF str = << >> THEN acc
    ELSE LET d == to_digit(Head(str)) IN
         IF d = None \/ acc * 10 + d > USIZE_MAX THEN None
         ELSE ParseDigits(Tail(str), acc * 10 + d)

\* str::parse::<usize>: an optional leading '+', then one or more decimal
\* digits (leading zeros included)
parse(str) ==
    LET digits == IF str # << >> /\ Head(str) = "+" THEN Tail(str) ELSE str IN
    IF digits = << >> THEN None ELSE ParseDigits(digits, 0)

\* path.join(DATAPAGE_FILE_STEM).with_extension(i.to_string())
PagePath(i) == with_extension(DATAPAGE_FILE_STEM, to_string(i))

\* a name the directory scan of new looks for: stem ".dp.data.maxi"
StemPath(i) == DATAPAGE_FILE_STEM \o << to_string(i) >>

\* ------------------------------------------------------------ DataPagesManager

MaxOf(S) == CHOOSE x \in S : \A y \in S : y <= x

\* manager.rs 51-56
load_total_page_count(d) ==
    Cardinality({ e \in d : file_stem(e) = DATAPAGE_FILE_STEM })

\* manager.rs 58-69
load_max_page(d) ==
    LET nums == { parse(extension(e)) :
                    e \in { x \in d : file_stem(x) = DATAPAGE_FILE_STEM } } \ {None}
    IN IF nums = {} THEN 0 ELSE MaxOf(nums)

\* usize addition: the wrapped sum, and whether it left the range
usize_add(a, b) == [value |-> (a + b) % U64, overflow |-> a + b >= U64]

\* manager.rs 33: the sequence numbers new maps, the half-open range
\* max_page_count.saturating_sub(total_page_count) .. max_page_count + 1 with
\* its end computed in usize: for max_page_count = usize::MAX the end wraps to
\* 0 and the range is empty
NewRange(d) ==
    LET total_page_count == load_total_page_count(d)
        max_page_count == load_max_page(d)
    IN  (IF max_page_count < total_page_count THEN 0
         ELSE max_page_count - total_page_count)
            .. (usize_add(max_page_count, 1).value - 1)

RECURSIVE Ascending(_)
Ascending(S) ==
    IF S = {} THEN << >>
    ELSE LET m == MaxOf(S) IN Append(Ascending(S \ {m}), m)

NoMgrRet == [ op |-> "-", n |-> 0, kind |-> "-", seq |-> 0, page |-> 0 ]

MgrRet(op, n, kind, seq, page) ==
    [ op |-> op, n |-> n, kind |-> kind, seq |-> seq, page |-> page ]

\* manager.rs 27-49, DataPagesManager::new on a directory holding d: mapping
\* a file creates it when it is missing. The addition max_page_count + 1 of
\* line 33 panics in a build with overflow checks when it overflows, before
\* any file is mapped: no manager is made then
new(d) ==
    IF usize_add(load_max_page(d), 1).overflow /\ overflow_checks
    THEN [ ret            |-> MgrRet("new", 0, "panic", 0, 0),
           dir            |-> d,
           datapage_ring  |-> << >>,
           datapage_count |-> 0,
           max_datapages  |-> 0 ]
    ELSE [ ret            |-> NoMgrRet,
           dir            |-> d \cup { PagePath(i) : i \in NewRange(d) },
           datapage_ring  |-> Ascending(NewRange(d)),
           datapage_count |-> load_total_page_count(d),
           max_datapages  |-> USIZE_MAX ]


\* VecDeque indexing: datapages[i], a panic when i is out of range
RingAt(ring, i) == IF i < Len(ring) THEN ring[i + 1] ELSE None

\* the file system errors of DataPage::new a run may meet
MaxIoErrors == 1

\* what DataPage::new (MmapCell::new_named) may answer at manager.rs 113-117:
\* the mapping, or an error of the file system that leaves no file, or one
\* that leaves the file it made without a mapping
NewOutcomes ==
    IF mgr_hist.io_errors < MaxIoErrors
    THEN { "Ok", "ErrNoFile", "ErrFile" } ELSE { "Ok" }

\* manager.rs 98-123, the branch num > dp_count, where the counter holds
\* count and DataPage::new answers io: the outcome and the state it leaves.
\* The counter is advanced before the
\* file system is touched; a failed remove_file returns before the ring is
\* touched; pop_front takes nothing from an empty ring; a failed DataPage::new
\* returns after the file was removed and the front popped
CreateDatapageAt(count, num, io) ==
    LET dp_count == count + 1
        max_dps == max_datapages
        evict == dp_count >= max_dps
        old == PagePath(dp_count - max_dps)
        removed == evict /\ old \in dir
        dir1 == IF removed THEN dir \ {old} ELSE dir
        ring1 == IF removed /\ datapage_ring # << >>
                 THEN Tail(datapage_ring) ELSE datapage_ring
        made == IF removed /\ old = PagePath(dp_count)
                THEN Remade(dp_count) ELSE dp_count
        ring2 == Append(ring1, made)
    IN  IF evict /\ ~ removed
        THEN [ ret |-> MgrRet("get_or_create_datapage", num, "Err", 0, 0),
               dir |-> dir, ring |-> datapage_ring, count |-> dp_count,
               io_error |-> FALSE ]
        ELSE IF io # "Ok"
        THEN [ ret |-> MgrRet("get_or_create_datapage", num, "Err", 0, 0),
               dir |-> IF io = "ErrFile" THEN dir1 \cup {PagePath(dp_count)}
                       ELSE dir1,
               ring |-> ring1, count |-> dp_count, io_error |-> TRUE ]
        ELSE IF max_dps = 0 \/ RingAt(ring2, dp_count % max_dps) = None
        THEN [ ret |-> MgrRet("get_or_create_datapage", num, "panic", 0, 0),
               dir |-> dir1 \cup {PagePath(dp_count)}, ring |-> ring2,
               count |-> dp_count, io_error |-> FALSE ]
        ELSE [ ret |-> MgrRet("get_or_create_datapage", num, "Ok", dp_count,
                              RingAt(ring2, dp_count % max_dps)),
               dir |-> dir1 \cup {PagePath(dp_count)}, ring |-> ring2,
               count |-> dp_count, io_error |-> FALSE ]

\* manager.rs 100: the counter the branch advances is the manager's, by
\* fetch_add
CreateDatapage(num, io) == CreateDatapageAt(datapage_count, num, io)

\* manager.rs 126-128, the branch num <= dp_count
LookupDatapage(num) ==
    LET max_dps == max_datapages
        behind == IF datapage_count < max_dps THEN 0 ELSE datapage_count - max_dps
        dp_count == IF num > behind THEN num ELSE behind
        out == IF max_dps = 0 \/ RingAt(datapage_ring, dp_count % max_dps) = None
               THEN MgrRet("get_or_create_datapage", num, "panic", 0, 0)
               ELSE MgrRet("get_or_create_datapage", num, "Ok", dp_count,
                           RingAt(datapage_ring, dp_count % max_dps))
    IN  [ ret |-> out, dir |-> dir, ring |-> datapage_ring, count |-> datapage_count,
          io_error |-> FALSE ]

\* manager.rs 90-129: one call, under the upgradable lock from its first line
\* to its return, where DataPage::new answers io if it is called
GetOrCreate(num, io) ==
    IF num > datapage_count THEN CreateDatapage(num, io) ELSE LookupDatapage(num)

\* the manager's state after a call get_or_create_datapage(num) whose
\* outcome is r
ApplyOutcome(num, r) ==
    /\ dir' = r.dir
    /\ datapage_ring' = r.ring
    /\ datapage_count' = r.count
    /\ mgr_ret' = r.ret
    /\ mgr_hist' = [mgr_hist EXCEPT
                      !.rotated = @ \/ num > datapage_count,
                      !.failed = @ \/ r.ret.kind # "Ok",
                      !.io_errors = IF r.io_error THEN @ + 1 ELSE @]
    /\ UNCHANGED max_datapages

\* the manager's state after GetOrCreate(num, io)
ApplyGetOrCreate(num, io) == ApplyOutcome(num, GetOrCreate(num, io))

\* a direct call of get_or_create_datapage
get_or_create_datapage(num) ==
    /\ mgr_ret.op # "new"      \* new has returned a manager
    /\ datapage_count < MaxPage
    /\ \E io \in NewOutcomes : ApplyGetOrCreate(num, io)
    /\ UNCHANGED << pageVars, overflow_checks, threadVars, resv, queueVars >>

\* manager.rs 71-74
set_max_datapages(val) ==
    /\ mgr_ret.op # "new"      \* new has returned a manager
    /\ max_datapages' = val
    /\ mgr_ret' = MgrRet("set_max_datapages", val, "Ok", 0, 0)
    /\ mgr_hist' = [mgr_hist EXCEPT !.late_set = @ \/ mgr_hist.rotated]
    /\ UNCHANGED << dir, datapage_ring, datapage_count >>
    /\ UNCHANGED << pageVars, overflow_checks, threadVars, resv, queueVars >>

\* manager.rs 80-88
GetLast ==
    IF datapage_ring = << >>
    THEN MgrRet("get_last_datapage", 0, "Err", 0, 0)
    ELSE MgrRet("get_last_datapage", 0, "Ok", datapage_count,
                datapage_ring[Len(datapage_ring)])

get_last_datapage ==
    /\ mgr_ret.op # "new"      \* new has returned a manager
    /\ mgr_ret' = GetLast
    /\ UNCHANGED << dir, datapage_ring, datapage_count, max_datapages, mgr_hist >>
    /\ UNCHANGED << pageVars, overflow_checks, threadVars, resv, queueVars >>

\* ------------------------------------------------------------ the manager of lib.rs

\* lib.rs defines its own DataPagesManager, the manager a Receiver holds: a
\* ring of MAX_PAGES pages, in datapage_ring as the file number at each index
MAX_PAGES == 3

\* path.join(i.to_string())
LibPagePath(i) == << to_string(i) >>

\* lib.rs 61-80: new maps the files 0 .. MAX_PAGES - 1 (mapping creates a
\* file) and sets datapage_count = MAX_PAGES
lib_new(d) ==
    [ dir            |-> d \cup { LibPagePath(i) : i \in 0 .. (MAX_PAGES - 1) },
      datapage_ring  |-> [ i \in 1 .. MAX_PAGES |-> i - 1 ],
      datapage_count |-> MAX_PAGES ]

\* lib.rs 112-117, under the read lock, num < dp_count: a request behind the
\* ring is moved to its oldest place
LibLookup(num) ==
    LET behind == IF datapage_count < MAX_PAGES THEN 0 ELSE datapage_count - MAX_PAGES
        n == IF num < behind THEN behind ELSE num
    IN  [ ret |-> MgrRet("get_or_create_datapage", num, "Ok", n,
                         datapage_ring[(n % MAX_PAGES) + 1]),
          dir |-> dir, ring |-> datapage_ring, count |-> datapage_count,
          io_error |-> FALSE ]

\* lib.rs 91-109, under the write lock, where DataPage::new answers io:
\* datapage_count is loaded again; when num >= dp_count the counter is
\* advanced, the file dp_count is mapped into ring[dp_count % MAX_PAGES] (a
\* failed DataPage::new returns here) and the file dp_count - MAX_PAGES
\* removed; when num < dp_count the answer is
\* (dp_count, ring[dp_count % MAX_PAGES])
LibCreate(num, io) ==
    LET dp_count == datapage_count
        ring1 == [datapage_ring EXCEPT ![(dp_count % MAX_PAGES) + 1] = dp_count]
        dir1 == dir \cup { LibPagePath(dp_count) }
        old == LibPagePath(IF dp_count < MAX_PAGES THEN 0 ELSE dp_count - MAX_PAGES)
    IN  IF num >= dp_count
        THEN IF io # "Ok"
             THEN [ ret |-> MgrRet("get_or_create_datapage", num, "Err", 0, 0),
                    dir |-> IF io = "ErrFile" THEN dir1 ELSE dir,
                    ring |-> datapage_ring, count |-> dp_count + 1,
                    io_error |-> TRUE ]
             ELSE IF old \in dir1
             THEN [ ret |-> MgrRet("get_or_create_datapage", num, "Ok", dp_count,
                                   dp_count),
                    dir |-> dir1 \ {old}, ring |-> ring1, count |-> dp_count + 1,
                    io_error |-> FALSE ]
             ELSE [ ret |-> MgrRet("get_or_create_datapage", num, "Err", 0, 0),
                    dir |-> dir1, ring |-> ring1, count |-> dp_count + 1,
                    io_error |-> FALSE ]
        ELSE [ ret |-> MgrRet("get_or_create_datapage", num, "Ok", dp_count,
                              datapage_ring[(dp_count % MAX_PAGES) + 1]),
               dir |-> dir, ring |-> datapage_ring, count |-> datapage_count,
               io_error |-> FALSE ]

\* ------------------------------------------------------------ Sender

MaxSends == 2

\* the reservations the Senders make between them
MaxResv == 8

\* Sender.push, step 1: page.push(bytes) on the cached page
Sender_push(t, data) ==
    /\ pc[t] = "idle"
    /\ Len(pushed) < MaxSends
    /\ Len(resv) < MaxResv
    /\ push_reserve(t, handle[t].page, data)
    /\ UNCHANGED << overflow_checks, ncalls, mgrVars, queueVars >>

\* what a handle does with the answer r of get_or_create_datapage: an error
\* ends the call, a page is what the caller goes on with
AfterRotate(t, r, l, label, h) ==
    /\ pc' = [pc EXCEPT ![t] = CASE r.ret.kind = "Ok" -> label
                                 [] r.ret.kind = "Err" -> "idle"
                                 [] OTHER -> "panicked"]
    /\ loc' = [loc EXCEPT ![t] = IF r.ret.kind = "Ok" /\ label # "panicked"
                                 THEN l ELSE NoLoc]
    /\ ret' = [ret EXCEPT ![t] =
                 IF r.ret.kind = "Ok" /\ label # "panicked" THEN @
                 ELSE [ NoRet EXCEPT !.kind = IF r.ret.kind = "Err" THEN "IoError"
                                              ELSE "panic",
                                     !.op = l.op ]]
    /\ handle' = [handle EXCEPT ![t] = IF r.ret.kind = "Ok" THEN h ELSE @]

\* Sender.push, step 2: on DataPageFull the page after the cached one is
\* requested and cached
Sender_rotate(t) ==
    /\ t \in Senders
    /\ pc[t] = "rotate"
    /\ (handle[t].seq + 1 > datapage_count) => datapage_count < MaxPage
    /\ \E io \in NewOutcomes :
          LET r == GetOrCreate(handle[t].seq + 1, io) IN
          /\ ApplyGetOrCreate(handle[t].seq + 1, io)
          /\ AfterRotate(t, r, loc[t], "retry",
                         [handle[t] EXCEPT !.seq = r.ret.seq, !.page = r.ret.page])
    /\ UNCHANGED << pageVars, overflow_checks, ncalls, resv, pushed, popped >>

\* Sender.push, back to step 1 with the new cached page
Sender_retry(t) ==
    /\ pc[t] = "retry"
    /\ Len(resv) < MaxResv
    /\ push_reserve(t, handle[t].page, loc[t].data)
    /\ UNCHANGED << overflow_checks, ncalls, mgrVars, queueVars >>

\* ------------------------------------------------------------ handles of lib.rs

\* RefCell: borrow_mut (and replace) panic while a Ref of the cell is alive
borrow_mut(cell, refs) == IF cell \in refs THEN "panic" ELSE "Ok"

\* the Ref taken at lib.rs 159 lives to the end of the loop's iteration
RefsInPop(t) == IF pc[t] \in {"idle", "panicked"} THEN {} ELSE {"datapage"}

\* what the handle of t does with the answer r of get_or_create_datapage.
\* A Sender caches (seq, page) and pushes again. Receiver<Grouped>::pop
\* stores the number (lib.rs 173) and replaces the cached page (lib.rs 174)
\* while the Ref of line 159 is alive
HandleRotated(t, r) ==
    IF t \in Senders
    THEN AfterRotate(t, r, loc[t], "retry",
                     [handle[t] EXCEPT !.seq = r.ret.seq, !.page = r.ret.page])
    ELSE LET replaced == borrow_mut("datapage", RefsInPop(t)) IN
         AfterRotate(t, r, [ NoLoc EXCEPT !.op = "pop" ],
                     IF replaced = "Ok" THEN "idle" ELSE "panicked",
                     IF replaced = "Ok"
                     THEN [handle[t] EXCEPT !.seq = r.ret.seq, !.page = r.ret.page]
                     ELSE [handle[t] EXCEPT !.seq = r.ret.seq])

\* lib.rs 82-89, 112-117: get_or_create_datapage(seq + 1) under the read
\* lock; when num >= dp_count the read lock is dropped and the call goes on
\* to take the write lock
lib_rotate(t) ==
    /\ pc[t] = "rotate"
    /\ LET num == handle[t].seq + 1 IN
       IF num >= datapage_count
       THEN /\ pc' = [pc EXCEPT ![t] = "lib_write"]
            /\ loc' = [loc EXCEPT ![t].v = num]
            /\ UNCHANGED << ret, handle, mgrVars >>
       ELSE /\ ApplyOutcome(num, LibLookup(num))
            /\ HandleRotated(t, LibLookup(num))
    /\ UNCHANGED << pageVars, overflow_checks, ncalls, resv, pushed, popped >>

\* lib.rs 90-110: the rest of the call, under the write lock
lib_rotate_write(t) ==
    /\ pc[t] = "lib_write"
    /\ loc[t].v >= datapage_count => datapage_count <= MaxPage
    /\ \E io \in NewOutcomes :
          /\ ApplyOutcome(loc[t].v, LibCreate(loc[t].v, io))
          /\ HandleRotated(t, LibCreate(loc[t].v, io))
    /\ UNCHANGED << pageVars, overflow_checks, ncalls, resv, pushed, popped >>

\* Sender.push on a page of lib.rs: page.push(bytes) on the cached page
LibSender_push(t, data) ==
    /\ pc[t] = "idle"
    /\ Len(pushed) < MaxSends
    /\ Len(resv) < MaxResv
    /\ lib_push_reserve(t, handle[t].page, data)
    /\ UNCHANGED << overflow_checks, ncalls, mgrVars, queueVars >>

\* Sender.push, back to step 1 with the new cached page
LibSender_retry(t) ==
    /\ pc[t] = "retry"
    /\ Len(resv) < MaxResv
    /\ lib_push_reserve(t, handle[t].page, loc[t].data)
    /\ UNCHANGED << overflow_checks, ncalls, mgrVars, queueVars >>

\* ------------------------------------------------------------ Receiver

\* lib.rs 159-161: Receiver<Grouped>::pop borrows the cached page and claims
\* the group's next slot
Grouped_pop(t) ==
    /\ pc[t] = "idle"
    /\ ncalls[t] < MaxCalls
    /\ LET pg == handle[t].page
           g == handle[t].group
           count == receiver_group_count[pg][g]
       IN /\ receiver_group_count' =
                [receiver_group_count EXCEPT ![pg][g] = u32_add(count, 1).value]
          /\ Goto(t, "enter", [ NoLoc EXCEPT !.page = pg, !.count = count, !.op = "get" ])
    /\ ncalls' = [ncalls EXCEPT ![t] = @ + 1]
    /\ UNCHANGED << count_write_idx, idx_map_with_salt, buf, overflow_checks, resv,
                    mgrVars, queueVars >>

\* lib.rs 163: datapage.get().get(count), the get of lib.rs's page
pop_get(t) ==
    /\ pc[t] = "enter"
    /\ lib_get_enter(t, loc[t].page, loc[t].count)
    /\ UNCHANGED << pageVars, overflow_checks, ncalls, resv, mgrVars, queueVars >>

\* lib.rs 182-186: Receiver<Anonymous>::pop borrows anon_count, and borrows
\* it mutably for the increment while that Ref is alive
Anonymous_pop(t) ==
    /\ pc[t] = "idle"
    /\ ncalls[t] < MaxCalls
    /\ LET refs == {"datapage", "anon_count"}
           count == handle[t].anon_count
       IN IF borrow_mut("anon_count", refs) = "panic"
          THEN /\ pc' = [pc EXCEPT ![t] = "panicked"]
               /\ ret' = [ret EXCEPT ![t] = [ NoRet EXCEPT !.kind = "panic", !.op = "pop" ]]
               /\ UNCHANGED << loc, handle >>
          ELSE /\ handle' = [handle EXCEPT ![t].anon_count = u32_add(count, 1).value]
               /\ Goto(t, "enter", [ NoLoc EXCEPT !.page = handle[t].page,
                                                  !.count = count, !.op = "get" ])
    /\ ncalls' = [ncalls EXCEPT ![t] = @ + 1]
    /\ UNCHANGED << pageVars, overflow_checks, resv, mgrVars, pushed, popped >>

\* ------------------------------------------------------------ one page

\* the pages of a state
Pages == DOMAIN count_write_idx

ZeroPage(S, x) == [pg \in S |-> x]

\* the pages named in S, zero-filled
InitPages(S) ==
    /\ count_write_idx = ZeroPage(S, 0)
    /\ receiver_group_count = ZeroPage(S, [g \in Groups |-> 0])
    /\ idx_map_with_salt = ZeroPage(S, [i \in Slots |-> 0])
    /\ buf = ZeroPage(S, [i \in BufIdx |-> 0])

InitThreads ==
    /\ pc = [t \in Threads |-> "idle"]
    /\ loc = [t \in Threads |-> NoLoc]
    /\ ret = [t \in Threads |-> NoRet]
    /\ ncalls = [t \in Threads |-> 0]
    /\ resv = << >>

\* a handle's fields: (seq, page) is the cached page, Receiver.datapage_count
\* and Receiver.datapage in lib.rs
NoHandle == [ seq |-> 0, page |-> 0, anon_count |-> 0, group |-> 0 ]

InitQueueIdle ==
    /\ handle = [t \in Threads |-> NoHandle]
    /\ pushed = << >>
    /\ popped = [t \in Receivers |-> << >>]

InitMgrIdle ==
    /\ dir = {}
    /\ datapage_ring = << >>
    /\ datapage_count = 0
    /\ max_datapages = 0
    /\ mgr_ret = NoMgrRet
    /\ mgr_hist = [ rotated |-> FALSE, late_set |-> FALSE, failed |-> FALSE,
                    io_errors |-> 0,
                    found |-> {} ]

\* a fresh page (a zero-filled mapping), shared by the producer and consumer
\* threads
InitPage ==
    /\ InitPages({0})
    /\ InitThreads
    /\ overflow_checks \in BOOLEAN
    /\ InitMgrIdle
    /\ InitQueueIdle

PushStep(t) ==
    \/ push_term_store(t)
    \/ push_term_wake(t)
    \/ push_copy(t)
    \/ push_copy_data(t)
    \/ push_store(t)
    \/ push_wake(t)

ReadStep(t) ==
    \/ read_wait(t)
    \/ read_reload(t)
    \/ read_load(t)
    \/ read_casc_store(t)
    \/ read_casc_wake(t)
    \/ read_slice(t)

\* what producer t pushes: p1 also the message whose length overflows
PageInputs(t) ==
    IF t = "p1" THEN PushInputs \cup { Data(OverflowLen, 5) } ELSE PushInputs

\* SpecPage: two producers push any of PageInputs on one page while one
\* consumer reads any slot with any of the three readers
NextPage ==
    \/ \E t \in Producers : \E d \in PageInputs(t) : PushCall(t, d)
    \/ \E t \in Producers : PushStep(t)
    \/ \E op \in ReadOps, c \in 0 .. MAX_MESSAGES_PER_PAGE :
          ReadCall("c1", op, c) /\ ncalls["c1"] < 1
    \/ ReadStep("c1")
    \/ read_wait_returns("c1")

SpecPage == InitPage /\ [][NextPage]_vars

\* SpecReaders: two producers and two consumers blocking in get on one page;
\* c1 makes one call and c2 up to MaxCalls
ReadersInputs == { Data(1, 1), Data(BigLen, 9) }

NextReaders ==
    \/ \E t \in Producers, d \in ReadersInputs :
          PushCall(t, d) /\ Len(resv) < MaxPushes - 1
    \/ \E t \in Producers : PushStep(t)
    \/ \E t \in Consumers, c \in Slots :
          ReadCall(t, "get", c) /\ (t = "c1" => ncalls[t] < 1)
    \/ \E t \in Consumers : ReadStep(t)
    \/ \E t \in Consumers : read_wait_returns(t)

SpecReaders == InitPage /\ [][NextReaders]_vars

\* SpecMgr: a manager opened on a directory that is empty or holds the files
\* of an earlier run, then used by one owner
MaxSeed == 2

\* ".dp.data.maxi.+03": an extension that parses to 3
SignedName == DATAPAGE_FILE_STEM \o << << "+", "0", "3" >> >>

\* the directories of an earlier run, and the directory whose one file has
\* the largest sequence number a usize holds
InitDirs ==
    SUBSET ({ PagePath(i) : i \in 0 .. MaxSeed } \cup { StemPath(MaxSeed), SignedName })
        \cup { { StemPath(USIZE_MAX) } }

MaxPagesInputs == 0 .. MaxPage

InitMgr ==
    /\ InitPages(0 .. Remade(MaxPage))
    /\ InitThreads
    /\ InitQueueIdle
    /\ \E d \in InitDirs, checks \in BOOLEAN :
          \* the manager computes with overflow in one place, the addition of
          \* manager.rs 33: the two builds differ on the directories that
          \* overflow it, and on no other
          /\ checks => usize_add(load_max_page(d), 1).overflow
          /\ overflow_checks = checks
          /\ dir = new(d).dir
          /\ datapage_ring = new(d).datapage_ring
          /\ datapage_count = new(d).datapage_count
          /\ max_datapages = new(d).max_datapages
          /\ mgr_ret = new(d).ret
          /\ mgr_hist = [ rotated |-> FALSE, late_set |-> FALSE, io_errors |-> 0,
                          failed |-> new(d).ret.kind = "panic", found |-> d ]

\* the increments the owner applies to a group counter of the newest page:
\* of group 0 and of the first group outside the array
GroupCountInputs == { 1, U32_MAX }

NextMgr ==
    \/ \E val \in MaxPagesInputs : set_max_datapages(val)
    \/ \E num \in 0 .. (MaxPage + 1) : get_or_create_datapage(num)
    \/ get_last_datapage
    \/ \E group \in { 0, MAX_RECEIVER_GROUPS }, val \in GroupCountInputs :
          /\ datapage_ring # << >>
          /\ increment_group_count("c1", datapage_ring[Len(datapage_ring)], group, val)

SpecMgr == InitMgr /\ [][NextMgr]_vars

\* ------------------------------------------------------------ the queue

QueueInputs == { Data(1, 1), Data(7, 3) }

GroupOf(t) == IF t = "r3" THEN 1 ELSE 0

\* a fresh store of manager.rs: the manager is opened on an empty directory,
\* its owner sets the retention bound, and the Senders start on page 0
InitStore ==
    /\ InitPages(0 .. Remade(MaxPage))
    /\ InitThreads
    /\ overflow_checks = FALSE
    /\ dir = new({}).dir
    /\ datapage_ring = new({}).datapage_ring
    /\ datapage_count = new({}).datapage_count
    /\ max_datapages \in {1, 2, USIZE_MAX}
    /\ mgr_ret = NoMgrRet
    /\ mgr_hist = [ rotated |-> FALSE, late_set |-> FALSE, failed |-> FALSE,
                    io_errors |-> 0,
                    found |-> {} ]
    /\ handle = [t \in Threads |-> [ NoHandle EXCEPT !.group = GroupOf(t) ]]
    /\ pushed = << >>
    /\ popped = [t \in Receivers |-> << >>]

\* zero-filled pages of lib.rs
InitLibPages ==
    /\ count_write_idx = ZeroPage(0 .. MaxPage, 0)
    /\ receiver_group_count = ZeroPage(0 .. MaxPage, [g \in Groups |-> 0])
    /\ idx_map_with_salt = ZeroPage(0 .. MaxPage, [i \in LibSlots |-> 0])
    /\ buf = ZeroPage(0 .. MaxPage, [i \in LibBufIdx |-> 0])

\* a fresh store of lib.rs, the one a Receiver is made on: new on an empty
\* directory (lib.rs 61-80), then Receiver::new, which asks for page 0
\* (lib.rs 143); the retention is MAX_PAGES, held in max_datapages
InitQueue ==
    /\ InitLibPages
    /\ InitThreads
    /\ overflow_checks = FALSE
    /\ dir = lib_new({}).dir
    /\ datapage_ring = lib_new({}).datapage_ring
    /\ datapage_count = lib_new({}).datapage_count
    /\ max_datapages = MAX_PAGES
    /\ mgr_ret = NoMgrRet
    /\ mgr_hist = [ rotated |-> FALSE, late_set |-> FALSE, failed |-> FALSE,
                    io_errors |-> 0,
                    found |-> {} ]
    /\ handle = [t \in Threads |-> [ NoHandle EXCEPT !.group = GroupOf(t) ]]
    /\ pushed = << >>
    /\ popped = [t \in Receivers |-> << >>]

\* the messages pushed on a store of lib.rs; the last one is as long as a page
LibQueueInputs == { Data(1, 1), Data(2, 2), Data(LIB_MAX_BYTES_PER_PAGE - SIZE_OF_LEN, 9) }

\* the steps of Sender.push on pages of lib.rs
LibSenderSteps(t) ==
    \/ \E d \in LibQueueInputs : LibSender_push(t, d)
    \/ LibPushStep(t)
    \/ LibSender_retry(t)

\* the steps of get_or_create_datapage(seq + 1) for the handles H
RotateSteps(H) ==
    \/ \E t \in H : lib_rotate(t)
    \/ \E t \in H : lib_rotate_write(t)

\* the steps of Receiver<Grouped>::pop for the receivers R
GroupedSteps(R) ==
    \/ \E t \in R : Grouped_pop(t)
    \/ \E t \in R : pop_get(t)
    \/ \E t \in R : LibGetStep(t)

\* SpecFifo: one Sender and one anonymous Receiver
NextFifo ==
    \/ LibSenderSteps("s1")
    \/ RotateSteps({"s1"})
    \/ Anonymous_pop("a1")

SpecFifo == InitQueue /\ [][NextFifo]_vars

\* SpecGroup: one Sender and two receivers of the same group
NextGroup ==
    LibSenderSteps("s1") \/ GroupedSteps({"r1", "r2"}) \/ RotateSteps({"s1", "r1", "r2"})

SpecGroup == InitQueue /\ [][NextGroup]_vars

\* SpecFanout: one Sender and one receiver in each of two groups
NextFanout ==
    LibSenderSteps("s1") \/ GroupedSteps({"r1", "r3"}) \/ RotateSteps({"s1", "r1", "r3"})

SpecFanout == InitQueue /\ [][NextFanout]_vars

\* ------------------------------------------------------------ page claims

\* the reservations made on page pg, as indices of resv
ResvOn(pg) == { i \in 1 .. Len(resv) : resv[i].page = pg }

\* C3: the (write_idx, count) pairs returned by the fetch_add of the pushes on
\* one page are pairwise distinct in count, and their byte intervals
\* [write_idx, write_idx + full_msg_len) are pairwise disjoint.
C3_Injective ==
    \A pg \in Pages : \A i, j \in ResvOn(pg) :
        i < j =>
          /\ resv[i].count # resv[j].count
          /\ \/ resv[i].write_idx + resv[i].len <= resv[j].write_idx
             \/ resv[j].write_idx + resv[j].len <= resv[i].write_idx

\* C2: every push(d) that returned Ok published one slot, and every reader
\* that returns a message for that slot returns bytes equal to d.
C2_Fidelity ==
    \A i \in 1 .. Len(resv) : \A t \in Threads :
        ( /\ resv[i].res = "Ok"
          /\ ret[t].kind = "Some"
          /\ ret[t].page = resv[i].page
          /\ ret[t].slot = resv[i].count )
        => ret[t].data = resv[i].data

\* no thread is inside a call, except asleep on a futex
Quiescent == \A t \in Threads : pc[t] \in {"idle", "panicked", "sleeping"}

\* the page holds a terminator at or below slot c
TerminatedUpTo(pg, c) ==
    \E k \in Slots : k <= c /\ idx_map_with_salt[pg][k] >= MAX_BYTES_PER_PAGE

\* C6: once a terminator is published at slot c no consumer is left
\* sleeping: when every running call has returned, no thread is still asleep
\* in get(c') with c' >= c on that page.
C6_NoSleeperLeft ==
    Quiescent =>
      \A t \in Threads :
        ~ ( /\ pc[t] = "sleeping"
            /\ loc[t].op = "get"
            /\ TerminatedUpTo(loc[t].page, loc[t].count) )

\* C7: a get(c) that waits while a push publishes slot c returns that
\* message; it does not end without it.
C7_NoLostWakeup ==
    \A t \in Threads :
        (ret[t].op = "get" /\ ret[t].pub) => ret[t].kind = "Some"

\* ------------------------------------------------------------ manager claims

\* the manager is used as its owner is told to: the retention bound is at
\* least one and is not changed once a page has been created, and no call
\* has failed
ProperUse ==
    /\ max_datapages >= 1
    /\ ~ mgr_hist.late_set
    /\ ~ mgr_hist.failed

\* the oldest retained sequence number, page_count - max_pages + 1
Oldest ==
    IF datapage_count + 1 > max_datapages
    THEN datapage_count + 1 - max_datapages ELSE 0

Creates == mgr_ret.op = "get_or_create_datapage" /\ mgr_hist.rotated

\* C8: after successful get_or_create_datapage calls that create pages, the
\* files on disk are exactly those of the sequence numbers
\* [max(0, page_count - max_pages + 1), page_count].
C8_Retention ==
    (ProperUse /\ Creates) =>
        dir = { PagePath(i) : i \in Oldest .. datapage_count }

\* C9: every (seq, page) returned by get_or_create_datapage(n) has the page
\* that was created for seq; seq = n when oldest <= n <= page_count, and
\* seq is the new page_count when the call created a page.
C9_PageIdentity ==
    (ProperUse /\ mgr_hist.found = {}
       /\ mgr_ret.op = "get_or_create_datapage" /\ mgr_ret.kind = "Ok") =>
        /\ mgr_ret.page = mgr_ret.seq
        /\ (Oldest <= mgr_ret.n /\ mgr_ret.n <= datapage_count)
              => mgr_ret.seq = mgr_ret.n
        /\ mgr_ret.n > datapage_count => mgr_ret.seq = datapage_count

\* C10: get_or_create_datapage(n) with n below the oldest retained sequence
\* number returns (oldest, page of oldest), a page still in the ring whose
\* file is still on disk.
C10_FallingBehind ==
    (ProperUse /\ mgr_hist.found = {}
       /\ mgr_ret.op = "get_or_create_datapage" /\ mgr_ret.n < Oldest) =>
        /\ mgr_ret.kind = "Ok"
        /\ mgr_ret.seq = Oldest
        /\ mgr_ret.page = Oldest
        /\ \E i \in 1 .. Len(datapage_ring) : datapage_ring[i] = Oldest
        /\ PagePath(Oldest) \in dir

\* ------------------------------------------------------------ queue claims

IsPrefix(a, b) ==
    /\ Len(a) <= Len(b)
    /\ \A i \in 1 .. Len(a) : a[i] = b[i]

\* the receiver is at most max_pages - 1 pages behind the newest page, which
\* is page datapage_count - 1 in lib.rs
KeepsUp(t) == (datapage_count - 1) - handle[t].seq <= max_datapages - 1

\* C1: with one Sender and one anonymous Receiver on a fresh store, what
\* successive pop calls returned is a prefix of what was pushed.
C1_Fifo ==
    \A a \in AnonRx : KeepsUp(a) => IsPrefix(popped[a], pushed)

\* Receiver<Anonymous>::pop returns no message: its first statement after the
\* borrows panics (lib.rs 183-184)
AnonymousNeverReturns ==
    \A a \in AnonRx : popped[a] = << >>

ReceiversOf(g) == { t \in GroupedRx : handle[t].group = g }

\* no push is in progress, and every receiver of group g has died in pop or
\* waits in get on a cell that holds 0
AllGone(g) ==
    /\ \A t \in Senders : pc[t] \in {"idle", "panicked"}
    /\ \A t \in ReceiversOf(g) :
          \/ pc[t] = "panicked"
          \/ pc[t] = "lib_wait" /\ idx_map_with_salt[loc[t].page][loc[t].count] = 0

\* the messages the receivers of group g have returned
PoppedBy(g) == UNION { { popped[t][i] : i \in 1 .. Len(popped[t]) } : t \in ReceiversOf(g) }

Published == { pushed[i] : i \in 1 .. Len(pushed) }

\* C4: no two receivers of one group return the same message of a page, and
\* the receivers of the group return, between them, every message published
\* on a page: none is left when the last of them has stopped.
C4_GroupExclusive ==
    /\ \A t, u \in ReceiversOf(0) : \A i \in 1 .. Len(popped[t]) :
          \A j \in 1 .. Len(popped[u]) :
            (t # u) => ~ ( /\ popped[t][i].page = popped[u][j].page
                           /\ popped[t][i].slot = popped[u][j].slot )
    /\ AllGone(0) =>
          \A pg \in Pages :
             { m \in PoppedBy(0) : m.page = pg } = { m \in Published : m.page = pg }

\* C5: every message published is returned to a receiver of each group, and
\* no message is returned twice within a group, whatever the other group
\* pops and across page rotation.
C5_Fanout ==
    \A g \in Groups :
        /\ AllGone(g) => Published \subseteq PoppedBy(g)
        /\ \A t \in ReceiversOf(g) : \A i, j \in 1 .. Len(popped[t]) :
              i # j => popped[t][i] # popped[t][j]

\* ------------------------------------------------------------ construction

\* the sequence numbers of the page files new found: the files a manager
\* writes, path.join(DATAPAGE_FILE_STEM).with_extension(i)
FoundSeqs == { i \in 0 .. (2 * MaxPage) : PagePath(i) \in mgr_hist.found }

\* no call has been made on the manager since new
JustOpened == mgr_ret \in { NoMgrRet, MgrRet("new", 0, "panic", 0, 0) }

\* C11: for any set of existing page files, count of them and largest
\* sequence number max_seq, new maps exactly the pages
\* [max_seq - count + 1, max_seq] ([0, 0] for an empty directory), creates no
\* other file and sets page_count = max_seq, so that get_last_datapage right
\* after new returns (max_seq, page max_seq).
C11_Construction ==
    JustOpened =>
        LET count == Cardinality(FoundSeqs)
            max_seq == IF FoundSeqs = {} THEN 0 ELSE MaxOf(FoundSeqs)
            first == IF FoundSeqs = {} THEN 0 ELSE max_seq - count + 1
        IN  /\ datapage_ring = Ascending(first .. max_seq)
            /\ dir \subseteq mgr_hist.found \cup { PagePath(i) : i \in first .. max_seq }
            /\ datapage_count = max_seq
            /\ GetLast = MgrRet("get_last_datapage", 0, "Ok", max_seq, max_seq)

\* ------------------------------------------------------------ senders

\* SpecSenders: two Senders on a fresh store; the bytes of a message name its
\* sender, and s1 also pushes a message as long as a page
SendInputs(t) ==
    IF t = "s1"
    THEN { Data(1, 1), Data(7, 1), Data(MAX_BYTES_PER_PAGE - SIZE_OF_LEN, 1) }
    ELSE { Data(1, 2), Data(7, 2) }

NextSenders ==
    \/ \E t \in Senders : \E d \in SendInputs(t) : Sender_push(t, d)
    \/ \E t \in Senders : PushStep(t)
    \/ \E t \in Senders : Sender_rotate(t)
    \/ \E t \in Senders : Sender_retry(t)

SpecSenders == InitStore /\ [][NextSenders]_vars

\* C12: Sender.push reaches a successful push after finitely many iterations
\* of "push on the cached page, on DataPageFull take the next page and
\* retry", because each new page admits at least one message: the push that
\* makes the first reservation of a page does not return DataPageFull.
C12_NewPageAdmits ==
    \A i \in 1 .. Len(resv) :
        (resv[i].write_idx = 0 /\ resv[i].count = 0) =>
            resv[i].res # "DataPageFull"

\* ------------------------------------------------------------ failed rotation

\* C13: when get_or_create_datapage(n) with n > page_count returns an I/O
\* error, page_count and the ring hold the values they had before the call.
C13_FailedRotation ==
    [][ (mgr_ret'.op = "get_or_create_datapage" /\ mgr_ret'.kind = "Err") =>
            (datapage_count' = datapage_count /\ datapage_ring' = datapage_ring)
      ]_vars

\* ------------------------------------------------------------ rotation race

\* the threads that call get_or_create_datapage at the same time
Callers == {"s1", "r1"}

\* a thread calls get_or_create_datapage(num) and waits for the upgradable
\* lock of manager.rs 94; the call is issued when num > page_count
goc_call(t, num) ==
    /\ pc[t] = "idle"
    /\ ncalls[t] < MaxCalls
    /\ num > datapage_count
    /\ pc' = [pc EXCEPT ![t] = "lock"]
    /\ loc' = [loc EXCEPT ![t] = [ NoLoc EXCEPT !.op = "get_or_create_datapage",
                                     !.v = num, !.count = datapage_count ]]
    /\ ncalls' = [ncalls EXCEPT ![t] = @ + 1]
    /\ UNCHANGED << pageVars, overflow_checks, ret, resv, mgrVars, queueVars >>

\* the call of t from the lock to its return, with outcome r; what it
\* returns is kept with the request, the page_count at the time of the
\* request, the files the call made and whether it put a page in the ring
LockedCall(t, r) ==
    /\ pc[t] = "lock"
    /\ datapage_count < MaxPage
    /\ ApplyOutcome(loc[t].v, r)
    /\ pc' = [pc EXCEPT ![t] = "idle"]
    /\ loc' = [loc EXCEPT ![t] = NoLoc]
    /\ ret' = [ret EXCEPT ![t] = [ NoRet EXCEPT !.kind = r.ret.kind,
                 !.op = "get_or_create_datapage",
                 !.data = << loc[t].v, loc[t].count, r.dir \ dir,
                             r.ret.kind # "Err" /\ r.ring # datapage_ring >>,
                 !.page = r.ret.page, !.slot = r.ret.seq ]]
    /\ UNCHANGED << pageVars, overflow_checks, ncalls, resv, queueVars >>

\* a call that does not hold the lock from its first load: num is compared
\* with the page_count loaded before the other call ran, and the counter is
\* stored from that value
goc_stale(t) ==
    \E io \in NewOutcomes :
        LockedCall(t, IF loc[t].v > loc[t].count
                      THEN CreateDatapageAt(loc[t].count, loc[t].v, io)
                      ELSE LookupDatapage(loc[t].v))

\* manager.rs 94-128: the upgradable lock is exclusive among the callers of
\* get_or_create_datapage and page_count is loaded under it (manager.rs 95)
goc_locked(t) ==
    \E io \in NewOutcomes : LockedCall(t, GetOrCreate(loc[t].v, io))

NextRace ==
    \/ \E t \in Callers, num \in 1 .. MaxPage : goc_call(t, num)
    \/ \E t \in Callers : goc_locked(t)

SpecRace == InitStore /\ [][NextRace]_vars

\* t and u have each returned from a call get_or_create_datapage(n), both
\* requested at the same page_count
SameRequest(t, u) ==
    /\ t # u
    /\ ret[t].op = "get_or_create_datapage"
    /\ ret[u].op = "get_or_create_datapage"
    /\ ret[t].data[1] = ret[u].data[1]
    /\ ret[t].data[2] = ret[u].data[2]

\* the call t returned from created a new page: it mapped a page and put it
\* in the ring
CreatedPage(t) == ret[t].data[4]

\* C14: two concurrent get_or_create_datapage(n) calls issued when
\* n > page_count can each create a new page: when each of them has created
\* one, page_count has advanced by two and two page files were created for
\* the same requested n, the files page_count + 1 and page_count + 2. (That
\* there is such an interleaving is C14_Witness.)
C14_RotationRace ==
    \A t, u \in Callers :
        (SameRequest(t, u) /\ CreatedPage(t) /\ CreatedPage(u)) =>
            LET before == ret[t].data[2] IN
            /\ datapage_count = before + 2
            /\ ret[t].data[3] \cup ret[u].data[3] =
                  { PagePath(before + 1), PagePath(before + 2) }

\* both callers asked for the same n while neither had the lock, each has
\* created a page and returned it, and page_count has advanced by two
C14_Witness ==
    \E t, u \in Callers :
        /\ SameRequest(t, u)
        /\ CreatedPage(t) /\ CreatedPage(u)
        /\ ret[t].kind = "Ok" /\ ret[u].kind = "Ok"
        /\ datapage_count = ret[t].data[2] + 2

\* the second of two calls for the page after the newest one finds it made:
\* when n = page_count + 1 and neither call failed, one page was created
NextPageMadeOnce ==
    \A t, u \in Callers :
        ( /\ SameRequest(t, u)
          /\ ret[t].data[1] = ret[t].data[2] + 1
          /\ ret[t].kind = "Ok" /\ ret[u].kind = "Ok" ) =>
            /\ datapage_count = ret[t].data[2] + 1
            /\ ~ (CreatedPage(t) /\ CreatedPage(u))

\* ------------------------------------------------------------ reads that
\* return None

\* SpecPeek: producer p1 pushes a small or a wrapping message, producer p2 a
\* small one, on one page; consumer c1 polls a slot once with try_get or
\* get_with_timeout, consumer c2 reads a slot once with try_get or get
PeekOps == {"try_get", "get_with_timeout"}

PeekInputs(t) ==
    IF t = "p1" THEN { Data(1, 1), Data(BigLen, 9) } ELSE { Data(1, 2) }

NextPeek ==
    \/ \E t \in Producers : \E d \in PeekInputs(t) : PushCall(t, d)
    \/ \E t \in Producers : PushStep(t)
    \/ \E op \in PeekOps, c \in Slots : ReadCall("c1", op, c) /\ ncalls["c1"] < 1
    \/ \E op \in {"try_get", "get"}, c \in Slots :
          ReadCall("c2", op, c) /\ ncalls["c2"] < 1
    \/ \E t \in Consumers : ReadStep(t)
    \/ \E t \in Consumers : read_wait_returns(t)

SpecPeek == InitPage /\ [][NextPeek]_vars

\* the step in which a read returns Ok(None) changes nothing of the page
NoneChangesNothing ==
    (\E t \in Consumers : ret'[t] # ret[t] /\ ret'[t].kind = "None")
        => UNCHANGED pageVars

\* a read that returned a message after a read of the same slot returned
\* Ok(None) has the message that was pushed in that slot
LaterReadHasMessage ==
    \A t, u \in Consumers :
        ( /\ ret[t].kind = "None" /\ ret[t].op \in PeekOps
          /\ ret[u].kind = "Some"
          /\ ret[u].page = ret[t].page /\ ret[u].slot = ret[t].slot ) =>
            \E i \in ResvOn(ret[u].page) :
                /\ resv[i].count = ret[u].slot
                /\ resv[i].data = ret[u].data

\* C15: try_get(c) and get_with_timeout(c, dur) returning Ok(None) leave the
\* whole page state unchanged (slot table, count_write_idx, group counters,
\* buffer), and a later read of slot c after it is published returns that
\* slot's message.
C15_NonConsuming == [][NoneChangesNothing]_vars /\ [] LaterReadHasMessage

\* ------------------------------------------------------------ producer order

\* the sender of a message of SpecSenders: its bytes name it
SenderOf(m) == IF m.data[1] = 1 THEN "s1" ELSE "s2"

\* C16: if one producer's push A returns Ok before the same producer starts
\* push B and B returns Ok, then A is published at a smaller slot index than
\* B when both are on the same page, and A is never on a page with a larger
\* sequence number than B's page, whatever the other producers do.
C16_ProducerOrder ==
    \A i, j \in 1 .. Len(pushed) :
        (i < j /\ SenderOf(pushed[i]) = SenderOf(pushed[j])) =>
            \/ pushed[i].page < pushed[j].page
            \/ (pushed[i].page = pushed[j].page /\ pushed[i].slot < pushed[j].slot)

\* ------------------------------------------------------------ terminator

\* C17: a reader that observes the terminator at slot c returns
\* EndOfDataPage for every c in [0, N), c = N - 1 included; it writes the
\* terminator only to slot c + 1 and only when c + 1 < N, and never accesses
\* a slot-table index >= N (an access that panics).
C17_TerminatorBoundary ==
    [][ \A t \in Consumers :
          (pc[t] = "casc_store" /\ pc'[t] # pc[t]) =>
            /\ pc'[t] = "casc_wake"
            /\ loc[t].count + 1 < MAX_MESSAGES_PER_PAGE
            /\ \A c \in Slots :
                 idx_map_with_salt'[loc[t].page][c] # idx_map_with_salt[loc[t].page][c]
                    => c = loc[t].count + 1
      ]_vars

\* cell (pg, c) holds a terminator / a real salted offset
IsTerminator(pg, c) == idx_map_with_salt[pg][c] >= MAX_BYTES_PER_PAGE

IsRealOffset(pg, c) ==
    idx_map_with_salt[pg][c] # 0 /\ idx_map_with_salt[pg][c] < MAX_BYTES_PER_PAGE

\* C18: in every reachable state, if slot c holds a terminator (a value
\* >= MAX_BYTES_PER_PAGE) then no slot c' > c of the page holds, or ever later
\* receives, a real salted offset, for any pushes of any message lengths.
C18_TerminatorPropagation ==
    \A pg \in Pages : \A c, d \in Slots :
        (c < d /\ IsTerminator(pg, c)) => ~ IsRealOffset(pg, d)

\* C19: once any push on a page has returned DataPageFull, every push whose
\* reservation on that page comes later also returns DataPageFull.
C19_FullnessPermanent ==
    \A pg \in Pages : \A i, j \in ResvOn(pg) :
        (i < j /\ resv[i].res = "DataPageFull") =>
            resv[j].res \in {"pending", "DataPageFull"}

\* ------------------------------------------------------------ salted zero

\* a push has stored the salted offset of its message in slot c of page pg
PushStored(pg, c) ==
    \E i \in ResvOn(pg) :
        /\ resv[i].count = c
        /\ \/ resv[i].res = "Ok"
           \/ \E t \in Threads : pc[t] = "wake" /\ loc[t].r = i

\* a push has stored the terminator in slot c of page pg
TermStored(pg, c) ==
    \E i \in ResvOn(pg) :
        /\ resv[i].count = c
        /\ c < MAX_MESSAGES_PER_PAGE
        /\ \/ resv[i].res = "DataPageFull"
           \/ \E t \in Threads : pc[t] = "term_wake" /\ loc[t].r = i

\* a reader that saw the terminator in slot c - 1 has stored it in slot c
\* (every consumer of SpecPeek makes one call, so ret holds all that was
\* returned)
CascadeStored(pg, c) ==
    \E t \in Consumers :
        \/ pc[t] = "casc_wake" /\ loc[t].page = pg /\ loc[t].count + 1 = c
        \/ ret[t].kind = "EndOfDataPage" /\ ret[t].page = pg /\ ret[t].slot + 1 = c

\* slot c of page pg has been published or terminated
Touched(pg, c) == PushStored(pg, c) \/ TermStored(pg, c) \/ CascadeStored(pg, c)

\* the step in which try_get(c) returns, c in [0, N): Ok(None) exactly when
\* the slot has been neither published nor terminated
TryGetReturns ==
    \A t \in Consumers :
        (ret'[t] # ret[t] /\ ret'[t].op = "try_get"
           /\ ret'[t].slot < MAX_MESSAGES_PER_PAGE) =>
            (ret'[t].kind = "None" <=> ~ Touched(ret'[t].page, ret'[t].slot))

\* the first message of a page, at offset 0, is published with cell value 1
FirstMessageIsOne ==
    \A pg \in Pages :
        (\E i \in ResvOn(pg) : resv[i].count = 0 /\ resv[i].write_idx = 0
                                /\ resv[i].res = "Ok")
            => idx_map_with_salt[pg][0] = 1

\* C20: on a fresh page try_get(c) returns Ok(None) for every c in [0, N)
\* exactly as long as slot c has been neither published nor terminated;
\* producers store offset + 1, so the first message of a page (offset 0) is
\* published with cell value 1 and is read back as a message, not as
\* unpublished.
C20_SaltedZero == [][TryGetReturns]_vars /\ [] FirstMessageIsOne

\* try_get(0) returned Ok(None) to one consumer before the first message was
\* published, and the message to another after it
C20_Witness ==
    /\ ret["c1"].op = "try_get" /\ ret["c1"].kind = "None" /\ ret["c1"].slot = 0
    /\ ret["c2"].op = "try_get" /\ ret["c2"].kind = "Some" /\ ret["c2"].slot = 0
    /\ \E i \in ResvOn(0) : resv[i].count = 0 /\ resv[i].write_idx = 0
                             /\ resv[i].res = "Ok" /\ ret["c2"].data = resv[i].data
    /\ idx_map_with_salt[0][0] = 1

\* ------------------------------------------------------------ slot exhaustion

\* the N reservations of slots 0 .. N - 1 of page pg have all returned Ok
FilledPage(pg) ==
    \A c \in Slots : \E i \in ResvOn(pg) : resv[i].count = c /\ resv[i].res = "Ok"

\* the step of a reservation with count >= N: the push returns DataPageFull
\* in that step, with the slot table and the buffer as they were
ExhaustedPush ==
    (Len(resv') = Len(resv) + 1
       /\ resv'[Len(resv')].count >= MAX_MESSAGES_PER_PAGE) =>
        /\ resv'[Len(resv')].res = "DataPageFull"
        /\ \E t \in Producers :
              /\ pc[t] = "idle" /\ pc'[t] = "idle"
              /\ ret'[t] = [ NoRet EXCEPT !.kind = "DataPageFull", !.op = "push",
                                          !.slot = resv'[Len(resv')].count ]
        /\ idx_map_with_salt' = idx_map_with_salt
        /\ buf' = buf

\* the step in which a reader returns for a slot c >= N: it is the step of
\* the call itself, it returns EndOfDataPage and the page is as it was
GuardedRead ==
    \A t \in Consumers :
        (ret'[t] # ret[t] /\ ret'[t].op \in ReadOps
           /\ ret'[t].slot >= MAX_MESSAGES_PER_PAGE) =>
            /\ ret'[t].kind = "EndOfDataPage"
            /\ pc[t] = "idle" /\ pc'[t] = "idle"
            /\ UNCHANGED pageVars

\* no reader is ever inside a call for a slot c >= N
NoReaderPastEnd ==
    \A t \in Consumers : pc[t] # "idle" => loc[t].count < MAX_MESSAGES_PER_PAGE

\* the step in which a reader returns for slot N - 1 of a filled page: it
\* returns the message of the reservation with count N - 1
LastSlotRead ==
    \A t \in Consumers :
        (ret'[t] # ret[t] /\ ret'[t].op \in ReadOps
           /\ ret'[t].slot = MAX_MESSAGES_PER_PAGE - 1
           /\ FilledPage(ret'[t].page)) =>
            /\ ret'[t].kind = "Some"
            /\ \E i \in ResvOn(ret'[t].page) :
                  /\ resv[i].count = MAX_MESSAGES_PER_PAGE - 1
                  /\ ret'[t].data = resv[i].data

\* C21: a push whose reservation returns a count >= N returns DataPageFull
\* and writes no slot cell and no buffer byte; get(c), try_get(c) and
\* get_with_timeout(c) with c >= N return EndOfDataPage in the step of the
\* call, leaving the page as it was; slot N - 1 of a page filled with N
\* messages returns its message.
C21_SlotExhaustion ==
    /\ [][ExhaustedPush /\ GuardedRead /\ LastSlotRead]_vars
    /\ [] NoReaderPastEnd

\* the page holds N messages, a further push has returned DataPageFull and
\* the consumer has read the message of slot N - 1
C21_Witness ==
    /\ FilledPage(0)
    /\ \E i \in ResvOn(0) : resv[i].count = MAX_MESSAGES_PER_PAGE
                             /\ resv[i].res = "DataPageFull"
    /\ ret["c1"].kind = "Some" /\ ret["c1"].slot = MAX_MESSAGES_PER_PAGE - 1
    /\ \E i \in ResvOn(0) : resv[i].count = MAX_MESSAGES_PER_PAGE - 1
                             /\ ret["c1"].data = resv[i].data

\* ------------------------------------------------------------ the byte check

\* reservation i took the byte-exhaustion exit: it ended in DataPageFull, or
\* its call stands between the test and the return
ByteExit(i) ==
    \/ resv[i].res = "DataPageFull"
    \/ /\ resv[i].res = "pending"
       /\ \E t \in Threads : loc[t].r = i /\ pc[t] \in {"term_store", "term_wake"}

\* every reservation whose sum write_idx + F, taken in the integers, reaches
\* MAX_BYTES_PER_PAGE takes the byte-exhaustion exit
SaturatingByteCheck ==
    \A i \in 1 .. Len(resv) :
        (resv[i].write_idx + Len(resv[i].data) + SIZE_OF_LEN >= MAX_BYTES_PER_PAGE)
            => ByteExit(i)

\* the two fields of count_write_idx never decrease
FieldsNeverDecrease ==
    \A pg \in Pages :
        /\ fetch_add(count_write_idx'[pg], 0).write_idx
              >= fetch_add(count_write_idx[pg], 0).write_idx
        /\ fetch_add(count_write_idx'[pg], 0).count
              >= fetch_add(count_write_idx[pg], 0).count

\* C22: the byte-exhaustion test write_idx + F >= B of DataPage::push is
\* evaluated with saturating 32-bit arithmetic: every push whose true sum
\* reaches B returns DataPageFull and never writes into buf, and the count
\* and write_idx fields of count_write_idx never decrease.
C22_OverflowSafe == [] SaturatingByteCheck /\ [][FieldsNeverDecrease]_vars

\* ------------------------------------------------------------ the page of lib.rs, alone

\* SpecLib: two producers push on one fresh page of lib.rs and one consumer
\* calls get
LibInputs == { Data(1, 1), Data(2, 2),
               Data(LIB_MAX_BYTES_PER_PAGE - SIZE_OF_LEN, 9), Data(OverflowLen, 5) }

\* a direct caller of lib.rs's DataPage::push on page 0
LibPushCall(t, data) ==
    /\ pc[t] = "idle"
    /\ Len(resv) < MaxPushes
    /\ lib_push_reserve(t, 0, data)
    /\ UNCHANGED << overflow_checks, ncalls, mgrVars, queueVars >>

InitLib ==
    /\ InitLibPages
    /\ InitThreads
    /\ overflow_checks \in BOOLEAN
    /\ InitMgrIdle
    /\ InitQueueIdle

NextLib ==
    \/ \E t \in Producers, d \in LibInputs : LibPushCall(t, d)
    \/ \E t \in Producers : LibPushStep(t)
    \/ \E c \in 0 .. LIB_MAX_MESSAGES_PER_PAGE : lib_get("c1", c)
    \/ LibGetStep("c1")

SpecLib == InitLib /\ [][NextLib]_vars

\* the prior word, its halves decoded as (write_idx, count), is what the
\* reservation of a push used as byte offset and slot index
DecodedAsPacked ==
    (Len(resv') = Len(resv) + 1) =>
        /\ resv'[Len(resv')].write_idx = shr32(count_write_idx[0])
        /\ resv'[Len(resv')].count = as_u32(count_write_idx[0])

\* the first two pushes of the page returned Ok: slot 0 holds the salted
\* offset 0 and slot 1 the salted offset F_1, the length of the first message
TwoPushesPublished ==
    (Len(resv) >= 2 /\ resv[1].res = "Ok" /\ resv[2].res = "Ok") =>
        /\ idx_map_with_salt[0][0] = Salted(0)
        /\ idx_map_with_salt[0][1] = Salted(resv[1].len)
        /\ LibReadSlice(buf[0], idx_map_with_salt[0][0]).data = resv[1].data
        /\ LibReadSlice(buf[0], idx_map_with_salt[0][1]).data = resv[2].data

\* C23: in the page of lib.rs CountWriteIdx::fetch_add returns the prior word
\* decoded as (write_idx = high 32 bits, count = low 32 bits) and
\* DataPage::push uses the count as slot index and the write_idx as byte
\* offset, so that two successive pushes on a fresh page publish slots 0 and
\* 1 at the disjoint byte offsets 0 and F_1.
C23_LibDecoding == [][DecodedAsPacked]_vars /\ [] TwoPushesPublished

\* ------------------------------------------------------------ write-once slots

\* a step changes a slot cell only from 0 to a non-zero value
CellsWriteOnce ==
    \A pg \in Pages : \A c \in Slots :
        idx_map_with_salt'[pg][c] # idx_map_with_salt[pg][c] =>
            idx_map_with_salt[pg][c] = 0

\* two reads of one slot that returned a message returned the same message
SameMessageAgain ==
    \A t, u \in Consumers :
        (ret[t].kind = "Some" /\ ret[u].kind = "Some"
           /\ ret[t].page = ret[u].page /\ ret[t].slot = ret[u].slot) =>
            ret[t].data = ret[u].data

\* C24: slot cells are write-once: a slot cell changes only from 0 to a
\* non-zero value; a cell holding a real salted offset is never overwritten,
\* neither by another producer nor by a reader's terminator cascade, so
\* repeated reads of a published slot always return the same message.
C24_WriteOnce == [][CellsWriteOnce]_vars /\ [] SameMessageAgain

====
